---- MODULE Spec2Model ----
(***************************************************************************)
(* Signal-coordination helpers of src/src/helpers/requestHelpers.ts:       *)
(*   createWaitForDoneRequest      -> waitForDone                          *)
(*   createIterativeLoopRequest    -> iterativeLoop                        *)
(*   createProgressReportingRequest-> progressRequest                      *)
(*                                                                         *)
(* The workflow thread is single-threaded and cooperative: every action    *)
(* below is one uninterrupted run of workflow code, from one suspension    *)
(* point (an await on the activity, an await on condition()) to the next.  *)
(* A signal delivery runs the handler that setHandler() last registered    *)
(* for that signal; the registry is per workflow, so a later invocation's  *)
(* setHandler() replaces the earlier one's, and a handler stays registered *)
(* after its invocation has returned.  The host holds a signal for which   *)
(* no handler is registered, so a delivery is the run of a handler.        *)
(***************************************************************************)
EXTENDS Integers, Sequences, FiniteSets, TLC

\* ---- bounds ----
\* number of stimuli from outside the helpers: calls of a returned pattern
\* function plus signal deliveries
MaxEvents == 4

Inv == 1..MaxEvents

\* ---- value universes (inputs) ----
Undefined == "undefined"
Void == "void"
Results == {"job-1", "job-2"}
Errors == {"err-1", "err-2"}
Finals == {"f1", "f2"}
Progs == {"p1", "p2"}
Subs == {"s1", "s2"}
ArgVals == {"a1", "a2"}

\* the arguments the caller of each pattern's function is modelled to pass:
\* only syncWait is checked for what it does with them
CallArgsOf(p) == IF p = "syncWait" THEN ArgVals ELSE {"a1"}

Patterns == {"syncWait", "waitForDone", "iterativeLoop", "progressRequest"}
Signals == {"done", "finish", "submission", "update", "complete"}

\* the optional callbacks each factory accepts
CallbacksOf(p) ==
  CASE p = "syncWait" -> {}
    [] p = "waitForDone" -> {}
    [] p = "iterativeLoop" -> {"onSubmission"}
    [] p = "progressRequest" -> {"onStarted", "onProgress"}

\* the signals an invocation of each pattern registers a handler for
HandlersOf(p) ==
  CASE p = "syncWait" -> {}
    [] p = "waitForDone" -> {"done"}
    [] p = "iterativeLoop" -> {"finish", "submission"}
    [] p = "progressRequest" -> {"update", "complete"}

VARIABLES
  pattern,        \* which factory's returned function is being called
  callbacks,      \* the optional callbacks supplied to the factory
  wf,             \* position of relifeResearchWorkflow ("none": a helper is called on its own)
  handler,        \* host registry: signal -> invocation whose closure handles it (0: none)
  pc,             \* per invocation: position of the body
  isDone,         \* per invocation: let isDone
  finalData,      \* per invocation: let finalData        (progressRequest)
  lastSubmission, \* per invocation: let lastSubmission   (iterativeLoop)
  result,         \* per invocation: const result / activityResult
  outcome,        \* per invocation: value returned or error thrown
  started,        \* per invocation: number of calls of the start activity
  callArgs,       \* per invocation: the argument the caller passed
  actArgs,        \* per invocation: the arguments of its calls of the activity, in order
  settled,        \* per invocation: what the activity resolved or rejected with
  calls,          \* per invocation: callback invocations made by its code, in order
  delivered,      \* per invocation: signals delivered to its handlers, in order
  observed,       \* per invocation: lastSubmission as seen at each wake-up of the loop
  regAtStart,     \* per invocation: its registered handlers when the activity was started
  regAtSuspend    \* per invocation: its registered handlers at its first suspension

vars == <<pattern, callbacks, wf, handler, pc, isDone, finalData, lastSubmission,
          result, outcome, started, callArgs, actArgs, settled, calls, delivered,
          observed, regAtStart, regAtSuspend>>

\* ---- helpers ----
RECURSIVE SumLen(_, _)
SumLen(f, S) ==
  IF S = {} THEN 0
  ELSE LET x == CHOOSE y \in S : TRUE IN Len(f[x]) + SumLen(f, S \ {x})

Deliveries == SumLen(delivered, Inv)
\* calls made from outside: in relifeResearchWorkflow the only one is the start
\* of the workflow, the helpers being called by the workflow's own code
Calls == IF pattern = "workflow" THEN 1 ELSE Cardinality({i \in Inv : pc[i] # "idle"})
Events == Calls + Deliveries

\* the next invocation to be made is the lowest unused one
NextCall(i) ==
  /\ Events < MaxEvents
  /\ pc[i] = "idle"
  /\ \A j \in Inv : j < i => pc[j] # "idle"

\* which helper invocation i is an invocation of: in relifeResearchWorkflow the
\* first is the iterativeReq() call and the others are progressReq(...) calls,
\* and nothing runs once the workflow has ended
Kind(i) ==
  IF pattern = "workflow"
  THEN IF wf # "running" THEN "none"
       ELSE IF i = 1 THEN "iterativeLoop" ELSE "progressRequest"
  ELSE pattern

SetHandlerKeepFirst(h, sig, i) == IF h[sig] # 0 THEN h ELSE [h EXCEPT ![sig] = i]

SetHandler(h, sig, i) == [h EXCEPT ![sig] = i]
Registered(h, i) == {s \in Signals : h[s] = i}

Delivery(sig, v, i) == [sig |-> sig, val |-> v, pc |-> pc[i], wakes |-> Len(observed[i])]

\* ---- views of the logs, used to state properties ----

\* the deliveries of signal sig to invocation i, in delivery order
Sigs(i, sig) == SelectSeq(delivered[i], LAMBDA d : d.sig = sig)

\* the payloads of a sequence of deliveries
Vals(ds) == [k \in 1..Len(ds) |-> ds[k].val]

\* index in delivered[i] of the first delivery of sig (Len + 1 if there is none)
FirstIdx(i, sig) ==
  IF \E k \in 1..Len(delivered[i]) : delivered[i][k].sig = sig
  THEN CHOOSE k \in 1..Len(delivered[i]) :
         /\ delivered[i][k].sig = sig
         /\ \A m \in 1..(k - 1) : delivered[i][m].sig # sig
  ELSE Len(delivered[i]) + 1

\* payloads of the deliveries of sig to i that precede the first delivery of stop
Before(i, sig, stop) ==
  Vals(SelectSeq(SubSeq(delivered[i], 1, FirstIdx(i, stop) - 1), LAMBDA d : d.sig = sig))

\* arguments of the invocations of callback cb recorded in call log c for invocation i
ArgsIn(c, i, cb) ==
  LET s == SelectSeq(c[i], LAMBDA x : x.cb = cb) IN [k \in 1..Len(s) |-> s[k].arg]

Args(i, cb) == ArgsIn(calls, i, cb)

\* submissions delivered to i after its n-th wake-up and before the next one
PendingAfterWake(i, n) ==
  Vals(SelectSeq(delivered[i], LAMBDA d : d.sig = "submission" /\ d.wakes = n))

Init ==
  /\ pattern \in Patterns
  /\ callbacks \in SUBSET CallbacksOf(pattern)
  /\ wf = "none"
  /\ handler = [s \in Signals |-> 0]
  /\ pc = [i \in Inv |-> "idle"]
  /\ isDone = [i \in Inv |-> FALSE]
  /\ finalData = [i \in Inv |-> Undefined]
  /\ lastSubmission = [i \in Inv |-> Undefined]
  /\ result = [i \in Inv |-> Undefined]
  /\ outcome = [i \in Inv |-> Undefined]
  /\ started = [i \in Inv |-> 0]
  /\ callArgs = [i \in Inv |-> Undefined]
  /\ actArgs = [i \in Inv |-> <<>>]
  /\ settled = [i \in Inv |-> Undefined]
  /\ calls = [i \in Inv |-> <<>>]
  /\ delivered = [i \in Inv |-> <<>>]
  /\ observed = [i \in Inv |-> <<>>]
  /\ regAtStart = [i \in Inv |-> {}]
  /\ regAtSuspend = [i \in Inv |-> {}]

\* ======================= syncWait =======================

\* variant of SyncWaitCall: the activity is called without the caller's arguments
SyncWaitCallNoArgs(i, a) ==
  /\ pattern = "syncWait"
  /\ NextCall(i)
  /\ callArgs' = [callArgs EXCEPT ![i] = a]
  /\ started' = [started EXCEPT ![i] = @ + 1]
  /\ actArgs' = [actArgs EXCEPT ![i] = Append(@, Undefined)]
  /\ regAtStart' = [regAtStart EXCEPT ![i] = Registered(handler, i)]
  /\ regAtSuspend' = [regAtSuspend EXCEPT ![i] = Registered(handler, i)]
  /\ pc' = [pc EXCEPT ![i] = "awaitStart"]
  /\ UNCHANGED <<pattern, callbacks, wf, handler, isDone, finalData, lastSubmission,
                 result, outcome, settled, calls, delivered, observed>>

\* syncWait(...args), up to its await on activityFn(...args)
SyncWaitCall(i, a) ==
  /\ pattern = "syncWait"
  /\ NextCall(i)
  /\ callArgs' = [callArgs EXCEPT ![i] = a]
  /\ started' = [started EXCEPT ![i] = @ + 1]
  /\ actArgs' = [actArgs EXCEPT ![i] = Append(@, a)]
  /\ regAtStart' = [regAtStart EXCEPT ![i] = Registered(handler, i)]
  /\ regAtSuspend' = [regAtSuspend EXCEPT ![i] = Registered(handler, i)]
  /\ pc' = [pc EXCEPT ![i] = "awaitStart"]
  /\ UNCHANGED <<pattern, callbacks, wf, handler, isDone, finalData, lastSubmission,
                 result, outcome, settled, calls, delivered, observed>>

\* activityFn resolves with r: return r
SyncWaitResolved(i, r) ==
  /\ pattern = "syncWait"
  /\ pc[i] = "awaitStart"
  /\ settled' = [settled EXCEPT ![i] = r]
  /\ outcome' = [outcome EXCEPT ![i] = r]
  /\ pc' = [pc EXCEPT ![i] = "returned"]
  /\ UNCHANGED <<pattern, callbacks, wf, callArgs, actArgs, handler, isDone, finalData,
                 lastSubmission, result, started, calls, delivered, observed,
                 regAtStart, regAtSuspend>>

\* activityFn rejects with e: the await throws out of syncWait
SyncWaitRejected(i, e) ==
  /\ pattern = "syncWait"
  /\ pc[i] = "awaitStart"
  /\ settled' = [settled EXCEPT ![i] = e]
  /\ outcome' = [outcome EXCEPT ![i] = e]
  /\ pc' = [pc EXCEPT ![i] = "failed"]
  /\ UNCHANGED <<pattern, callbacks, wf, callArgs, actArgs, handler, isDone, finalData,
                 lastSubmission, result, started, calls, delivered, observed,
                 regAtStart, regAtSuspend>>

\* ======================= waitForDone =======================

\* waitForDone(...activityArgs), up to its await on startActivity
WaitForDoneCall(i, a) ==
  /\ pattern = "waitForDone"
  /\ NextCall(i)
  /\ LET h1 == SetHandler(handler, "done", i) IN
       /\ isDone' = [isDone EXCEPT ![i] = FALSE]
       /\ handler' = h1
       /\ started' = [started EXCEPT ![i] = @ + 1]
       /\ actArgs' = [actArgs EXCEPT ![i] = Append(@, a)]
       /\ regAtStart' = [regAtStart EXCEPT ![i] = Registered(h1, i)]
       /\ regAtSuspend' = [regAtSuspend EXCEPT ![i] = Registered(h1, i)]
  /\ callArgs' = [callArgs EXCEPT ![i] = a]
  /\ pc' = [pc EXCEPT ![i] = "awaitStart"]
  /\ UNCHANGED <<pattern, callbacks, wf, finalData, lastSubmission, result, outcome,
                 settled, calls, delivered, observed>>

\* the doneSignalDef handler: () => { isDone = true }
DoneHandler(i, v) ==
  /\ isDone' = [isDone EXCEPT ![i] = TRUE]
  /\ UNCHANGED <<finalData, lastSubmission, calls>>

\* startActivity resolves with r: const result = r; then await condition(() => isDone)
WaitForDoneResolved(i, r) ==
  /\ pattern = "waitForDone"
  /\ pc[i] = "awaitStart"
  /\ settled' = [settled EXCEPT ![i] = r]
  /\ result' = [result EXCEPT ![i] = r]
  /\ pc' = [pc EXCEPT ![i] = "awaitCond"]
  /\ UNCHANGED <<pattern, callbacks, wf, callArgs, actArgs, handler, isDone, finalData, lastSubmission,
                 outcome, started, calls, delivered, observed, regAtStart, regAtSuspend>>

\* variant of WaitForDoneRejected: the failure is swallowed and the body goes on to wait
WaitForDoneRejectedSwallow(i, e) ==
  /\ pattern = "waitForDone"
  /\ pc[i] = "awaitStart"
  /\ settled' = [settled EXCEPT ![i] = e]
  /\ pc' = [pc EXCEPT ![i] = "awaitCond"]
  /\ UNCHANGED <<pattern, callbacks, wf, callArgs, actArgs, handler, isDone, finalData, lastSubmission, outcome,
                 result, started, calls, delivered, observed, regAtStart, regAtSuspend>>

\* startActivity rejects with e: the await throws out of waitForDone
WaitForDoneRejected(i, e) ==
  /\ pattern = "waitForDone"
  /\ pc[i] = "awaitStart"
  /\ settled' = [settled EXCEPT ![i] = e]
  /\ outcome' = [outcome EXCEPT ![i] = e]
  /\ pc' = [pc EXCEPT ![i] = "failed"]
  /\ UNCHANGED <<pattern, callbacks, wf, callArgs, actArgs, handler, isDone, finalData, lastSubmission,
                 result, started, calls, delivered, observed, regAtStart, regAtSuspend>>

\* variant of WaitForDoneReturn: returns as soon as the activity has resolved
WaitForDoneReturnNoWait(i) ==
  /\ pattern = "waitForDone"
  /\ pc[i] = "awaitCond"
  /\ outcome' = [outcome EXCEPT ![i] = result[i]]
  /\ pc' = [pc EXCEPT ![i] = "returned"]
  /\ UNCHANGED <<pattern, callbacks, wf, callArgs, actArgs, handler, isDone, finalData, lastSubmission,
                 result, started, settled, calls, delivered, observed,
                 regAtStart, regAtSuspend>>

\* variant of WaitForDoneReturn: only a done signal that arrives after the
\* activity has resolved lets the body continue
WaitForDoneReturnLateOnly(i) ==
  /\ pattern = "waitForDone"
  /\ pc[i] = "awaitCond"
  /\ \E k \in 1..Len(delivered[i]) : delivered[i][k].pc = "awaitCond"
  /\ outcome' = [outcome EXCEPT ![i] = result[i]]
  /\ pc' = [pc EXCEPT ![i] = "returned"]
  /\ UNCHANGED <<pattern, callbacks, wf, callArgs, actArgs, handler, isDone, finalData,
                 lastSubmission, result, started, settled, calls, delivered, observed,
                 regAtStart, regAtSuspend>>

\* condition(() => isDone) is satisfied: return result
WaitForDoneReturn(i) ==
  /\ pattern = "waitForDone"
  /\ pc[i] = "awaitCond"
  /\ isDone[i]
  /\ outcome' = [outcome EXCEPT ![i] = result[i]]
  /\ pc' = [pc EXCEPT ![i] = "returned"]
  /\ UNCHANGED <<pattern, callbacks, wf, callArgs, actArgs, handler, isDone, finalData, lastSubmission,
                 result, started, settled, calls, delivered, observed,
                 regAtStart, regAtSuspend>>

\* ======================= iterativeLoop =======================

\* iterativeLoop(..._args), up to its first await on condition()
IterativeLoopCall(i) ==
  /\ pattern = "iterativeLoop"
  /\ NextCall(i)
  /\ LET h1 == SetHandler(handler, "finish", i)
         h2 == SetHandler(h1, "submission", i)
     IN
       /\ isDone' = [isDone EXCEPT ![i] = FALSE]
       /\ lastSubmission' = [lastSubmission EXCEPT ![i] = Undefined]
       /\ handler' = h2
       /\ regAtSuspend' = [regAtSuspend EXCEPT ![i] = Registered(h2, i)]
  /\ pc' = [pc EXCEPT ![i] = "awaitCond"]
  /\ UNCHANGED <<pattern, callbacks, wf, callArgs, actArgs, finalData, result, outcome, started, settled,
                 calls, delivered, observed, regAtStart>>

\* variant of FinishHandler: the handler flips the flag
FinishHandlerToggle(i, v) ==
  /\ isDone' = [isDone EXCEPT ![i] = ~@]
  /\ UNCHANGED <<finalData, lastSubmission, calls>>

\* the finishSignalDef handler: () => { isDone = true }
FinishHandler(i, v) ==
  /\ isDone' = [isDone EXCEPT ![i] = TRUE]
  /\ UNCHANGED <<finalData, lastSubmission, calls>>

\* variant of SubmissionHandler: a pending submission is not overwritten
SubmissionHandlerKeepFirst(i, sub) ==
  /\ lastSubmission' = IF lastSubmission[i] = Undefined
                       THEN [lastSubmission EXCEPT ![i] = sub]
                       ELSE lastSubmission
  /\ calls' = IF "onSubmission" \in callbacks
              THEN [calls EXCEPT ![i] = Append(@, [cb |-> "onSubmission", arg |-> sub])]
              ELSE calls
  /\ UNCHANGED <<isDone, finalData>>

\* the submissionSignalDef handler: lastSubmission = sub; onSubmission?.(sub)
SubmissionHandler(i, sub) ==
  /\ lastSubmission' = [lastSubmission EXCEPT ![i] = sub]
  /\ calls' = IF "onSubmission" \in callbacks
              THEN [calls EXCEPT ![i] = Append(@, [cb |-> "onSubmission", arg |-> sub])]
              ELSE calls
  /\ UNCHANGED <<isDone, finalData>>

\* variant of IterativeLoopWake: the loop leaves at its first wake-up
IterativeLoopWakeOnce(i) ==
  /\ Kind(i) = "iterativeLoop"
  /\ pc[i] = "awaitCond"
  /\ lastSubmission[i] # Undefined \/ isDone[i]
  /\ observed' = [observed EXCEPT ![i] = Append(@, lastSubmission[i])]
  /\ pc' = [pc EXCEPT ![i] = "returned"]
  /\ outcome' = [outcome EXCEPT ![i] = Void]
  /\ UNCHANGED <<pattern, callbacks, wf, callArgs, actArgs, handler, isDone, finalData, lastSubmission, result,
                 started, settled, calls, delivered, regAtStart, regAtSuspend>>

\* condition(() => lastSubmission !== undefined || isDone) is satisfied:
\* if (isDone) break; lastSubmission = undefined; back to while (!isDone)
IterativeLoopWakeClearsFirst(i) ==
  /\ Kind(i) = "iterativeLoop"
  /\ pc[i] = "awaitCond"
  /\ lastSubmission[i] # Undefined \/ isDone[i]
  /\ observed' = [observed EXCEPT ![i] = Append(@, lastSubmission[i])]
  /\ lastSubmission' = [lastSubmission EXCEPT ![i] = Undefined]
  /\ IF isDone[i]
     THEN /\ pc' = [pc EXCEPT ![i] = "returned"]
          /\ outcome' = [outcome EXCEPT ![i] = Void]
     ELSE UNCHANGED <<pc, outcome>>
  /\ UNCHANGED <<pattern, callbacks, wf, callArgs, actArgs, handler, isDone, finalData, result, started,
                 settled, calls, delivered, regAtStart, regAtSuspend>>

IterativeLoopWakeDrainFirst(i) ==
  /\ Kind(i) = "iterativeLoop"
  /\ pc[i] = "awaitCond"
  /\ \/ lastSubmission[i] # Undefined /\ ~isDone[i]
     \/ lastSubmission[i] = Undefined /\ isDone[i]
  /\ observed' = [observed EXCEPT ![i] = Append(@, lastSubmission[i])]
  /\ IF isDone[i]
     THEN /\ pc' = [pc EXCEPT ![i] = "returned"]
          /\ outcome' = [outcome EXCEPT ![i] = Void]
          /\ UNCHANGED lastSubmission
     ELSE /\ lastSubmission' = [lastSubmission EXCEPT ![i] = Undefined]
          /\ UNCHANGED <<pc, outcome>>
  /\ UNCHANGED <<pattern, callbacks, wf, callArgs, actArgs, handler, isDone, finalData, result, started,
                 settled, calls, delivered, regAtStart, regAtSuspend>>

IterativeLoopWake(i) ==
  /\ Kind(i) = "iterativeLoop"
  /\ pc[i] = "awaitCond"
  /\ lastSubmission[i] # Undefined \/ isDone[i]
  /\ observed' = [observed EXCEPT ![i] = Append(@, lastSubmission[i])]
  /\ IF isDone[i]
     THEN /\ pc' = [pc EXCEPT ![i] = "returned"]
          /\ outcome' = [outcome EXCEPT ![i] = Void]
          /\ UNCHANGED lastSubmission
     ELSE /\ lastSubmission' = [lastSubmission EXCEPT ![i] = Undefined]
          /\ UNCHANGED <<pc, outcome>>
  /\ UNCHANGED <<pattern, callbacks, wf, callArgs, actArgs, handler, isDone, finalData, result, started,
                 settled, calls, delivered, regAtStart, regAtSuspend>>

\* ======================= progressRequest =======================

\* variant of ProgressRequestCall: the activity is started before the complete
\* handler is registered
ProgressRequestCallLate(i, a) ==
  /\ pattern = "progressRequest"
  /\ NextCall(i)
  /\ LET h1 == SetHandler(handler, "update", i)
         h2 == SetHandler(h1, "complete", i)
     IN
       /\ isDone' = [isDone EXCEPT ![i] = FALSE]
       /\ finalData' = [finalData EXCEPT ![i] = Undefined]
       /\ started' = [started EXCEPT ![i] = @ + 1]
       /\ actArgs' = [actArgs EXCEPT ![i] = Append(@, a)]
       /\ regAtStart' = [regAtStart EXCEPT ![i] = Registered(h1, i)]
       /\ handler' = h2
       /\ regAtSuspend' = [regAtSuspend EXCEPT ![i] = Registered(h2, i)]
  /\ callArgs' = [callArgs EXCEPT ![i] = a]
  /\ pc' = [pc EXCEPT ![i] = "awaitStart"]
  /\ UNCHANGED <<pattern, callbacks, wf, lastSubmission, result, outcome, settled,
                 calls, delivered, observed>>

\* progressRequest(...activityArgs), up to its await on startLongJobActivity
ProgressRequestCallSharedFlag(i, a) ==
  /\ pattern = "progressRequest"
  /\ NextCall(i)
  /\ LET h1 == SetHandler(handler, "update", i)
         h2 == SetHandler(h1, "complete", i)
     IN
       /\ isDone' = [isDone EXCEPT ![i] = \E j \in Inv : isDone[j]]
       /\ finalData' = [finalData EXCEPT ![i] =
                          IF \E j \in Inv : finalData[j] # Undefined
                          THEN finalData[CHOOSE j \in Inv : finalData[j] # Undefined]
                          ELSE Undefined]
       /\ handler' = h2
       /\ started' = [started EXCEPT ![i] = @ + 1]
       /\ actArgs' = [actArgs EXCEPT ![i] = Append(@, a)]
       /\ regAtStart' = [regAtStart EXCEPT ![i] = Registered(h2, i)]
       /\ regAtSuspend' = [regAtSuspend EXCEPT ![i] = Registered(h2, i)]
  /\ callArgs' = [callArgs EXCEPT ![i] = a]
  /\ pc' = [pc EXCEPT ![i] = "awaitStart"]
  /\ UNCHANGED <<pattern, callbacks, wf, lastSubmission, result, outcome, settled,
                 calls, delivered, observed>>

ProgressRequestCall(i, a) ==
  /\ pattern = "progressRequest"
  /\ NextCall(i)
  /\ LET h1 == SetHandler(handler, "update", i)
         h2 == SetHandler(h1, "complete", i)
     IN
       /\ isDone' = [isDone EXCEPT ![i] = FALSE]
       /\ finalData' = [finalData EXCEPT ![i] = Undefined]
       /\ handler' = h2
       /\ started' = [started EXCEPT ![i] = @ + 1]
       /\ actArgs' = [actArgs EXCEPT ![i] = Append(@, a)]
       /\ regAtStart' = [regAtStart EXCEPT ![i] = Registered(h2, i)]
       /\ regAtSuspend' = [regAtSuspend EXCEPT ![i] = Registered(h2, i)]
  /\ callArgs' = [callArgs EXCEPT ![i] = a]
  /\ pc' = [pc EXCEPT ![i] = "awaitStart"]
  /\ UNCHANGED <<pattern, callbacks, wf, lastSubmission, result, outcome, settled,
                 calls, delivered, observed>>

\* variant of UpdateHandler: a payload equal to the last reported one is coalesced
UpdateHandlerDedup(i, p) ==
  /\ calls' = IF /\ ~isDone[i]
                 /\ "onProgress" \in callbacks
                 /\ ~(Args(i, "onProgress") # <<>>
                      /\ Args(i, "onProgress")[Len(Args(i, "onProgress"))] = p)
              THEN [calls EXCEPT ![i] = Append(@, [cb |-> "onProgress", arg |-> p])]
              ELSE calls
  /\ UNCHANGED <<isDone, finalData, lastSubmission>>

\* variant of UpdateHandler: no isDone guard
UpdateHandlerNoGuard(i, p) ==
  /\ calls' = IF "onProgress" \in callbacks
              THEN [calls EXCEPT ![i] = Append(@, [cb |-> "onProgress", arg |-> p])]
              ELSE calls
  /\ UNCHANGED <<isDone, finalData, lastSubmission>>

\* the updateSignalDef handler: if (!isDone) onProgress?.(progressValue)
UpdateHandler(i, p) ==
  /\ calls' = IF ~isDone[i] /\ "onProgress" \in callbacks
              THEN [calls EXCEPT ![i] = Append(@, [cb |-> "onProgress", arg |-> p])]
              ELSE calls
  /\ UNCHANGED <<isDone, finalData, lastSubmission>>

\* variant of CompleteHandler: no isDone guard, the last completion wins
CompleteHandlerOverwrite(i, f) ==
  /\ finalData' = [finalData EXCEPT ![i] = f]
  /\ isDone' = [isDone EXCEPT ![i] = TRUE]
  /\ UNCHANGED <<lastSubmission, calls>>

\* the completeSignalDef handler: if (!isDone) { finalData = finalVal; isDone = true }
CompleteHandlerFlagOnly(i, f) ==
  /\ IF ~isDone[i]
     THEN /\ isDone' = [isDone EXCEPT ![i] = TRUE]
          /\ UNCHANGED finalData
     ELSE UNCHANGED <<finalData, isDone>>
  /\ UNCHANGED <<lastSubmission, calls>>

CompleteHandler(i, f) ==
  /\ IF ~isDone[i]
     THEN /\ finalData' = [finalData EXCEPT ![i] = f]
          /\ isDone' = [isDone EXCEPT ![i] = TRUE]
     ELSE UNCHANGED <<finalData, isDone>>
  /\ UNCHANGED <<lastSubmission, calls>>

\* variant of ProgressRequestResolved: the flag is (re)initialised after the await
ProgressRequestResolvedResets(i, r) ==
  /\ Kind(i) = "progressRequest"
  /\ pc[i] = "awaitStart"
  /\ settled' = [settled EXCEPT ![i] = r]
  /\ result' = [result EXCEPT ![i] = r]
  /\ isDone' = [isDone EXCEPT ![i] = FALSE]
  /\ calls' = IF "onStarted" \in callbacks
              THEN [calls EXCEPT ![i] = Append(@, [cb |-> "onStarted", arg |-> r])]
              ELSE calls
  /\ pc' = [pc EXCEPT ![i] = "awaitCond"]
  /\ UNCHANGED <<pattern, callbacks, wf, callArgs, actArgs, handler, finalData, lastSubmission,
                 outcome, started, delivered, observed, regAtStart, regAtSuspend>>

\* variant of ProgressRequestResolved: onStarted is skipped when the completion
\* signal has already arrived
ProgressRequestResolvedSkipsWhenDone(i, r) ==
  /\ Kind(i) = "progressRequest"
  /\ pc[i] = "awaitStart"
  /\ settled' = [settled EXCEPT ![i] = r]
  /\ result' = [result EXCEPT ![i] = r]
  /\ calls' = IF "onStarted" \in callbacks /\ ~isDone[i]
              THEN [calls EXCEPT ![i] = Append(@, [cb |-> "onStarted", arg |-> r])]
              ELSE calls
  /\ pc' = [pc EXCEPT ![i] = "awaitCond"]
  /\ UNCHANGED <<pattern, callbacks, wf, callArgs, actArgs, handler, isDone, finalData, lastSubmission,
                 outcome, started, delivered, observed, regAtStart, regAtSuspend>>

\* startLongJobActivity resolves with r: onStarted?.(r); then await condition(() => isDone)
ProgressRequestResolved(i, r) ==
  /\ Kind(i) = "progressRequest"
  /\ pc[i] = "awaitStart"
  /\ settled' = [settled EXCEPT ![i] = r]
  /\ result' = [result EXCEPT ![i] = r]
  /\ calls' = IF "onStarted" \in callbacks
              THEN [calls EXCEPT ![i] = Append(@, [cb |-> "onStarted", arg |-> r])]
              ELSE calls
  /\ pc' = [pc EXCEPT ![i] = "awaitCond"]
  /\ UNCHANGED <<pattern, callbacks, wf, callArgs, actArgs, handler, isDone, finalData, lastSubmission,
                 outcome, started, delivered, observed, regAtStart, regAtSuspend>>

\* startLongJobActivity rejects with e: the await throws out of progressRequest
ProgressRequestRejected(i, e) ==
  /\ Kind(i) = "progressRequest"
  /\ pc[i] = "awaitStart"
  /\ settled' = [settled EXCEPT ![i] = e]
  /\ outcome' = [outcome EXCEPT ![i] = e]
  /\ pc' = [pc EXCEPT ![i] = "failed"]
  /\ UNCHANGED <<pattern, callbacks, wf, callArgs, actArgs, handler, isDone, finalData, lastSubmission,
                 result, started, calls, delivered, observed, regAtStart, regAtSuspend>>

\* variant of ProgressRequestReturn: returns without waiting for the flag
ProgressRequestReturnNoWait(i) ==
  /\ Kind(i) = "progressRequest"
  /\ pc[i] = "awaitCond"
  /\ outcome' = [outcome EXCEPT ![i] = finalData[i]]
  /\ pc' = [pc EXCEPT ![i] = "returned"]
  /\ UNCHANGED <<pattern, callbacks, wf, callArgs, actArgs, handler, isDone, finalData, lastSubmission,
                 result, started, settled, calls, delivered, observed,
                 regAtStart, regAtSuspend>>

\* condition(() => isDone) is satisfied: return finalData!
ProgressRequestReturnClears(i) ==
  /\ Kind(i) = "progressRequest"
  /\ pc[i] = "awaitCond"
  /\ isDone[i]
  /\ outcome' = [outcome EXCEPT ![i] = finalData[i]]
  /\ finalData' = [finalData EXCEPT ![i] = Undefined]
  /\ pc' = [pc EXCEPT ![i] = "returned"]
  /\ UNCHANGED <<pattern, callbacks, wf, callArgs, actArgs, handler, isDone, lastSubmission,
                 result, started, settled, calls, delivered, observed,
                 regAtStart, regAtSuspend>>

ProgressRequestReturn(i) ==
  /\ Kind(i) = "progressRequest"
  /\ pc[i] = "awaitCond"
  /\ isDone[i]
  /\ outcome' = [outcome EXCEPT ![i] = finalData[i]]
  /\ pc' = [pc EXCEPT ![i] = "returned"]
  /\ UNCHANGED <<pattern, callbacks, wf, callArgs, actArgs, handler, isDone, finalData, lastSubmission,
                 result, started, settled, calls, delivered, observed,
                 regAtStart, regAtSuspend>>

\* ======================= signal delivery =======================

\* the host delivers signal sig with payload v: the registered handler runs
Deliver(sig, v) ==
  /\ Events < MaxEvents
  /\ handler[sig] # 0
  /\ delivered' = [delivered EXCEPT ![handler[sig]] = Append(@, Delivery(sig, v, handler[sig]))]
  /\ UNCHANGED <<pattern, callbacks, wf, callArgs, actArgs, handler, pc, result, outcome, started, settled,
                 observed, regAtStart, regAtSuspend>>

DeliverDone(v) == Deliver("done", v) /\ DoneHandler(handler["done"], v)
DeliverFinish(v) == Deliver("finish", v) /\ FinishHandler(handler["finish"], v)
DeliverSubmission(sub) ==
  /\ pattern # "workflow"
  /\ Deliver("submission", sub)
  /\ SubmissionHandler(handler["submission"], sub)
DeliverUpdate(p) == Deliver("update", p) /\ UpdateHandler(handler["update"], p)
DeliverComplete(f) == Deliver("complete", f) /\ CompleteHandler(handler["complete"], f)

Next ==
  \/ \E i \in Inv, a \in CallArgsOf("syncWait") : SyncWaitCall(i, a)
  \/ \E i \in Inv, r \in Results : SyncWaitResolved(i, r)
  \/ \E i \in Inv, e \in Errors : SyncWaitRejected(i, e)
  \/ \E i \in Inv, a \in CallArgsOf("waitForDone") : WaitForDoneCall(i, a)
  \/ \E i \in Inv, r \in Results : WaitForDoneResolved(i, r)
  \/ \E i \in Inv, e \in Errors : WaitForDoneRejected(i, e)
  \/ \E i \in Inv : WaitForDoneReturn(i)
  \/ \E i \in Inv : IterativeLoopCall(i)
  \/ \E i \in Inv : IterativeLoopWake(i)
  \/ \E i \in Inv, a \in CallArgsOf("progressRequest") : ProgressRequestCall(i, a)
  \/ \E i \in Inv, r \in Results : ProgressRequestResolved(i, r)
  \/ \E i \in Inv, e \in Errors : ProgressRequestRejected(i, e)
  \/ \E i \in Inv : ProgressRequestReturn(i)
  \/ \E v \in Finals : DeliverDone(v)
  \/ \E v \in Finals : DeliverFinish(v)
  \/ \E sub \in Subs : DeliverSubmission(sub)
  \/ \E p \in Progs : DeliverUpdate(p)
  \/ \E f \in Finals : DeliverComplete(f)

Spec == Init /\ [][Next]_vars

\* ======================= relifeResearchWorkflow =======================
\* The workflow calls the iterativeLoop helper once (invocation 1) and, from
\* its onSubmission callback, the progressRequest helper once per condition
\* signal (invocations 2, 3, ...).  The signal names of the helpers stand for
\* the workflow's signals: "submission" is userConditionSignal, "finish" is
\* userConvincedSignal, "update" is searchProgressSignal and "complete" is
\* searchCompleteSignal.  The chat messages posted from inside the callbacks
\* change none of the helpers' state and are left out.

\* the request field of a condition signal's payload
Request == [sub \in Subs |-> IF sub = "s1" THEN "q1" ELSE "q2"]

\* the argument onSubmission builds for progressReq: {request: cond.request}
CondRequest(sub) == [request |-> Request[sub]]

\* the workflow has been started and awaits the greeting message; all three
\* callbacks are supplied
InitWorkflow ==
  /\ pattern = "workflow"
  /\ callbacks = {"onSubmission", "onStarted", "onProgress"}
  /\ wf = "greeting"
  /\ handler = [s \in Signals |-> 0]
  /\ pc = [i \in Inv |-> "idle"]
  /\ isDone = [i \in Inv |-> FALSE]
  /\ finalData = [i \in Inv |-> Undefined]
  /\ lastSubmission = [i \in Inv |-> Undefined]
  /\ result = [i \in Inv |-> Undefined]
  /\ outcome = [i \in Inv |-> Undefined]
  /\ started = [i \in Inv |-> 0]
  /\ callArgs = [i \in Inv |-> Undefined]
  /\ actArgs = [i \in Inv |-> <<>>]
  /\ settled = [i \in Inv |-> Undefined]
  /\ calls = [i \in Inv |-> <<>>]
  /\ delivered = [i \in Inv |-> <<>>]
  /\ observed = [i \in Inv |-> <<>>]
  /\ regAtStart = [i \in Inv |-> {}]
  /\ regAtSuspend = [i \in Inv |-> {}]

\* the greeting message is posted: the workflow builds the two factories and
\* calls iterativeReq(), which registers its handlers and suspends
WorkflowGreeted ==
  /\ pattern = "workflow"
  /\ wf = "greeting"
  /\ wf' = "running"
  /\ LET h1 == SetHandler(handler, "finish", 1)
         h2 == SetHandler(h1, "submission", 1)
     IN
       /\ isDone' = [isDone EXCEPT ![1] = FALSE]
       /\ lastSubmission' = [lastSubmission EXCEPT ![1] = Undefined]
       /\ handler' = h2
       /\ regAtSuspend' = [regAtSuspend EXCEPT ![1] = Registered(h2, 1)]
  /\ pc' = [pc EXCEPT ![1] = "awaitCond"]
  /\ UNCHANGED <<pattern, callbacks, callArgs, actArgs, finalData, result, outcome, started, settled,
                 calls, delivered, observed, regAtStart>>

\* posting the greeting or the closing message fails: the workflow fails
WorkflowPostFailed ==
  /\ pattern = "workflow"
  /\ \/ wf = "greeting"
     \/ wf = "running" /\ pc[1] = "returned"
  /\ wf' = "failed"
  /\ handler' = [s \in Signals |-> 0]
  /\ UNCHANGED <<pattern, callbacks, pc, isDone, finalData, lastSubmission, result, outcome, started,
                 callArgs, actArgs, settled, calls, delivered, observed, regAtStart, regAtSuspend>>

\* iterativeReq() has returned and the closing message is posted: the workflow
\* function returns and the workflow is closed, whatever is still in flight
WorkflowCompleted ==
  /\ pattern = "workflow"
  /\ wf = "running"
  /\ pc[1] = "returned"
  /\ wf' = "completed"
  /\ handler' = [s \in Signals |-> 0]
  /\ UNCHANGED <<pattern, callbacks, pc, isDone, finalData, lastSubmission, result, outcome, started,
                 callArgs, actArgs, settled, calls, delivered, observed, regAtStart, regAtSuspend>>

\* a condition signal is delivered: the submission handler of the loop stores
\* the payload and calls onSubmission, which runs up to its first suspension:
\* it calls progressReq({request: cond.request}), which is invocation j; that
\* call resets j's state, registers the update and complete handlers and
\* starts startSearchActivity
WorkflowDeliverConditionWhileNotDone(sub) ==
  /\ pattern = "workflow"
  /\ Events < MaxEvents
  /\ handler["submission"] # 0
  /\ LET i == handler["submission"]
         j == CHOOSE k \in Inv : pc[k] = "idle" /\ \A m \in 1..(k - 1) : pc[m] # "idle"
         h1 == SetHandler(handler, "update", j)
         h2 == SetHandler(h1, "complete", j)
     IN
       /\ delivered' = [delivered EXCEPT ![i] = Append(@, Delivery("submission", sub, i))]
       /\ IF isDone[i]
          THEN UNCHANGED <<lastSubmission, calls, isDone, finalData, handler, started, actArgs,
                           callArgs, regAtStart, regAtSuspend, pc>>
          ELSE /\ lastSubmission' = [lastSubmission EXCEPT ![i] = sub]
               /\ calls' = [calls EXCEPT ![i] = Append(@, [cb |-> "onSubmission", arg |-> sub])]
               /\ isDone' = [isDone EXCEPT ![j] = FALSE]
               /\ finalData' = [finalData EXCEPT ![j] = Undefined]
               /\ handler' = h2
               /\ started' = [started EXCEPT ![j] = @ + 1]
               /\ actArgs' = [actArgs EXCEPT ![j] = Append(@, CondRequest(sub))]
               /\ callArgs' = [callArgs EXCEPT ![j] = CondRequest(sub)]
               /\ regAtStart' = [regAtStart EXCEPT ![j] = Registered(h2, j)]
               /\ regAtSuspend' = [regAtSuspend EXCEPT ![j] = Registered(h2, j)]
               /\ pc' = [pc EXCEPT ![j] = "awaitStart"]
  /\ UNCHANGED <<pattern, callbacks, wf, result, outcome, settled, observed>>

WorkflowDeliverCondition(sub) ==
  /\ pattern = "workflow"
  /\ Events < MaxEvents
  /\ handler["submission"] # 0
  /\ LET i == handler["submission"]
         j == CHOOSE k \in Inv : pc[k] = "idle" /\ \A m \in 1..(k - 1) : pc[m] # "idle"
         h1 == SetHandler(handler, "update", j)
         h2 == SetHandler(h1, "complete", j)
     IN
       /\ delivered' = [delivered EXCEPT ![i] = Append(@, Delivery("submission", sub, i))]
       /\ lastSubmission' = [lastSubmission EXCEPT ![i] = sub]
       /\ calls' = [calls EXCEPT ![i] = Append(@, [cb |-> "onSubmission", arg |-> sub])]
       /\ isDone' = [isDone EXCEPT ![j] = FALSE]
       /\ finalData' = [finalData EXCEPT ![j] = Undefined]
       /\ handler' = h2
       /\ started' = [started EXCEPT ![j] = @ + 1]
       /\ actArgs' = [actArgs EXCEPT ![j] = Append(@, CondRequest(sub))]
       /\ callArgs' = [callArgs EXCEPT ![j] = CondRequest(sub)]
       /\ regAtStart' = [regAtStart EXCEPT ![j] = Registered(h2, j)]
       /\ regAtSuspend' = [regAtSuspend EXCEPT ![j] = Registered(h2, j)]
       /\ pc' = [pc EXCEPT ![j] = "awaitStart"]
  /\ UNCHANGED <<pattern, callbacks, wf, result, outcome, settled, observed>>

NextWorkflow ==
  \/ WorkflowGreeted
  \/ WorkflowPostFailed
  \/ WorkflowCompleted
  \/ \E sub \in Subs : WorkflowDeliverCondition(sub)
  \/ \E v \in Finals : DeliverFinish(v)
  \/ \E i \in Inv : IterativeLoopWake(i)
  \/ \E i \in Inv, r \in Results : ProgressRequestResolved(i, r)
  \/ \E i \in Inv, e \in Errors : ProgressRequestRejected(i, e)
  \/ \E i \in Inv : ProgressRequestReturn(i)
  \/ \E p \in Progs : DeliverUpdate(p)
  \/ \E f \in Finals : DeliverComplete(f)

SpecWorkflow == InitWorkflow /\ [][NextWorkflow]_vars

\* ======================= properties =======================

\* C1: a waitForDone invocation returns only after its start activity has
\* resolved and a done signal has been delivered to it (in either order), and
\* it returns the activity's result, whatever the done signal's payload was.
C1_AwaitCompletion ==
  \A i \in Inv :
    (pattern = "waitForDone" /\ pc[i] = "returned") =>
      /\ settled[i] \in Results
      /\ \E k \in 1..Len(delivered[i]) :
           /\ delivered[i][k].sig = "done"
           /\ delivered[i][k].pc \in {"awaitStart", "awaitCond"}
      /\ outcome[i] = settled[i]

\* two invocations have returned: one got its done signal before the activity
\* resolved, the other only after
C1_Witness ==
  /\ pattern = "waitForDone"
  /\ \E i, j \in Inv :
       /\ pc[i] = "returned" /\ pc[j] = "returned"
       /\ Len(delivered[i]) >= 1 /\ delivered[i][1].pc = "awaitStart"
       /\ Len(delivered[j]) >= 1 /\ delivered[j][1].pc = "awaitCond"
       /\ outcome[i] \in Results /\ outcome[j] \in Results

\* C2: a progressRequest invocation stores and returns the payload of the first
\* complete signal delivered to it; a later complete signal changes neither the
\* stored value, the flag nor the returned value, and invokes no callback.
C2_FirstCompletionWins ==
  /\ [](\A i \in Inv :
          pattern = "progressRequest" =>
            /\ Sigs(i, "complete") # <<>> => finalData[i] = Sigs(i, "complete")[1].val
            /\ pc[i] = "returned" =>
                 /\ Sigs(i, "complete") # <<>>
                 /\ outcome[i] = Sigs(i, "complete")[1].val)
  /\ [][\A f \in Finals :
          (DeliverComplete(f) /\ Sigs(handler["complete"], "complete") # <<>>) =>
            UNCHANGED <<finalData, isDone, outcome, calls>>]_vars

\* an invocation returned f1 although a second completion carrying f2 was
\* delivered before it returned
C2_Witness ==
  /\ pattern = "progressRequest"
  /\ \E i \in Inv :
       /\ pc[i] = "returned"
       /\ Len(Sigs(i, "complete")) >= 2
       /\ Sigs(i, "complete")[1].val # Sigs(i, "complete")[2].val
       /\ Sigs(i, "complete")[2].pc # "returned"
       /\ outcome[i] = Sigs(i, "complete")[1].val

\* C3: with onProgress supplied, the onProgress invocations of a progressRequest
\* invocation are exactly the update signals delivered to it before its first
\* complete signal: one call per delivery, same payloads, same order, whether
\* the delivery came before or after the start activity resolved.
C3_ProgressInOrder ==
  \A i \in Inv :
    (pattern = "progressRequest" /\ "onProgress" \in callbacks) =>
      Args(i, "onProgress") = Before(i, "update", "complete")

\* two updates with the same payload, one before and one after the activity
\* resolved, then the completion: onProgress ran twice
C3_Witness ==
  /\ pattern = "progressRequest"
  /\ "onProgress" \in callbacks
  /\ \E i \in Inv :
       /\ Len(delivered[i]) = 3
       /\ delivered[i][1].sig = "update" /\ delivered[i][1].pc = "awaitStart"
       /\ delivered[i][2].sig = "update" /\ delivered[i][2].pc = "awaitCond"
       /\ delivered[i][1].val = delivered[i][2].val
       /\ delivered[i][3].sig = "complete"
       /\ Len(Args(i, "onProgress")) = 2

\* C4: once the completion flag of a progressRequest invocation is true, no
\* step adds an onProgress invocation for it, whether the body is still awaiting
\* the start activity, awaiting the condition, or has returned.
C4_NoProgressAfterDone ==
  [][\A i \in Inv :
       isDone[i] => ArgsIn(calls', i, "onProgress") = ArgsIn(calls, i, "onProgress")]_vars

\* an update was delivered after an early completion while the activity was
\* still pending, and another one after the invocation had returned
C4_Witness ==
  /\ pattern = "progressRequest"
  /\ "onProgress" \in callbacks
  /\ \E i \in Inv :
       /\ Len(delivered[i]) = 3
       /\ delivered[i][1].sig = "complete" /\ delivered[i][1].pc = "awaitStart"
       /\ delivered[i][2].sig = "update" /\ delivered[i][2].pc = "awaitStart"
       /\ delivered[i][3].sig = "update" /\ delivered[i][3].pc = "returned"
       /\ Args(i, "onProgress") = <<>>

\* a completion signal was delivered to i while its start activity was pending
EarlyCompletion(i) ==
  \E k \in 1..Len(delivered[i]) :
    /\ delivered[i][k].sig \in {"done", "complete"}
    /\ delivered[i][k].pc = "awaitStart"

\* C5: a completion signal delivered to a waitForDone or progressRequest
\* invocation while its start activity is pending is not lost: the flag stays
\* true, so once the activity has resolved the return is enabled without a
\* further signal, and progressRequest returns the first such payload.
C5_NoMissedSignal ==
  \A i \in Inv :
    EarlyCompletion(i) =>
      /\ isDone[i]
      /\ (pattern = "waitForDone" /\ pc[i] = "awaitCond") => ENABLED WaitForDoneReturn(i)
      /\ (pattern = "progressRequest" /\ pc[i] = "awaitCond") => ENABLED ProgressRequestReturn(i)
      /\ (pattern = "progressRequest" /\ pc[i] = "returned") =>
           outcome[i] = Sigs(i, "complete")[1].val

\* an invocation returned the payload of its only completion signal, which had
\* been delivered before the activity resolved
C5_Witness ==
  /\ pattern = "progressRequest"
  /\ \E i \in Inv :
       /\ pc[i] = "returned"
       /\ Len(Sigs(i, "complete")) = 1
       /\ Sigs(i, "complete")[1].pc = "awaitStart"
       /\ outcome[i] = Sigs(i, "complete")[1].val

\* the deliveries to i are submissions followed by at most one finish signal
SubmissionsThenFinish(i) ==
  \A k \in 1..Len(delivered[i]) :
    delivered[i][k].sig = "finish" => k = Len(delivered[i])

\* C6: when submissions s1..sn and then one finish signal are delivered to an
\* iterativeLoop invocation (onSubmission supplied), onSubmission has been
\* invoked exactly once per submission, in delivery order; and the loop never
\* returns before a finish signal has been delivered to it, also when n = 0.
C6_LoopSubmissions ==
  \A i \in Inv :
    pattern = "iterativeLoop" =>
      /\ (SubmissionsThenFinish(i) /\ "onSubmission" \in callbacks) =>
           Args(i, "onSubmission") = Vals(Sigs(i, "submission"))
      /\ pc[i] = "returned" =>
           \E k \in 1..Len(delivered[i]) :
             /\ delivered[i][k].sig = "finish"
             /\ delivered[i][k].pc = "awaitCond"

\* two different submissions and then finish were delivered, and the loop has returned
C6_Witness ==
  /\ pattern = "iterativeLoop"
  /\ "onSubmission" \in callbacks
  /\ \E i \in Inv :
       /\ pc[i] = "returned"
       /\ Len(delivered[i]) = 3
       /\ delivered[i][1].sig = "submission"
       /\ delivered[i][2].sig = "submission"
       /\ delivered[i][1].val # delivered[i][2].val
       /\ delivered[i][3].sig = "finish"
       /\ Args(i, "onSubmission") = <<delivered[i][1].val, delivered[i][2].val>>

\* C7: onSubmission runs once per submission delivered to an iterativeLoop
\* invocation, while the pending slot the loop body finds at a wake-up holds
\* only the last submission delivered since the previous wake-up (nothing if
\* there was none): an overwritten submission is never seen by the body.
C7_Overwrite ==
  \A i \in Inv :
    pattern = "iterativeLoop" =>
      /\ ("onSubmission" \in callbacks /\ Sigs(i, "finish") = <<>>) =>
           Args(i, "onSubmission") = Vals(Sigs(i, "submission"))
      /\ \A n \in 1..Len(observed[i]) :
           LET p == PendingAfterWake(i, n - 1) IN
             /\ p # <<>> /\ Sigs(i, "finish") = <<>> => observed[i][n] = p[Len(p)]
             /\ p = <<>> => observed[i][n] = Undefined

\* s1 then a different s2 were delivered before the first wake-up; onSubmission
\* ran for both and the body found s2 in the slot
C7_Witness ==
  /\ pattern = "iterativeLoop"
  /\ "onSubmission" \in callbacks
  /\ \E i \in Inv :
       /\ Len(observed[i]) >= 1
       /\ Len(PendingAfterWake(i, 0)) = 2
       /\ PendingAfterWake(i, 0)[1] # PendingAfterWake(i, 0)[2]
       /\ observed[i][1] = PendingAfterWake(i, 0)[2]
       /\ Args(i, "onSubmission") = PendingAfterWake(i, 0)
       /\ lastSubmission[i] = Undefined

\* C8 (as claimed): a submission delivered to an iterativeLoop invocation whose
\* finish flag is set, or which has returned, stores nothing and invokes no
\* onSubmission.
C8_SubmissionOnlyWhileNotDone ==
  [][\A sub \in Subs :
       (/\ DeliverSubmission(sub)
        /\ \/ isDone[handler["submission"]]
           \/ pc[handler["submission"]] = "returned") =>
         UNCHANGED <<lastSubmission, calls>>]_vars

\* C9: when the start activity of a waitForDone or progressRequest invocation
\* fails, the invocation has ended with that same failure in that very step
\* (whatever the completion flag), the activity has been started once only,
\* and onStarted has not been invoked.
C9_ActivityFailure ==
  \A i \in Inv :
    (pattern \in {"waitForDone", "progressRequest"} /\ settled[i] \in Errors) =>
      /\ pc[i] = "failed"
      /\ outcome[i] = settled[i]
      /\ started[i] = 1
      /\ Args(i, "onStarted") = <<>>

\* a progressRequest with onStarted failed with no completion signal delivered
C9_Witness ==
  /\ pattern = "progressRequest"
  /\ "onStarted" \in callbacks
  /\ \E i \in Inv :
       /\ pc[i] = "failed"
       /\ outcome[i] \in Errors
       /\ ~isDone[i]
       /\ delivered[i] = <<>>

\* C10 (as claimed): in all three patterns the handlers are registered before
\* the start activity is started and before the first suspension, and the start
\* activity is started exactly once per invocation.
C10_AsClaimed ==
  \A i \in Inv :
    pc[i] # "idle" =>
      /\ regAtSuspend[i] = HandlersOf(pattern)
      /\ regAtStart[i] = HandlersOf(pattern)
      /\ started[i] = 1

\* C10 (amended): every handler of an invocation is registered before its first
\* suspension; waitForDone and progressRequest start their activity exactly
\* once, with all handlers already registered; iterativeLoop starts no activity.
C10_SetupOrder ==
  \A i \in Inv :
    pc[i] # "idle" =>
      /\ regAtSuspend[i] = HandlersOf(pattern)
      /\ pattern \in {"waitForDone", "progressRequest"} =>
           /\ regAtStart[i] = HandlersOf(pattern)
           /\ started[i] = 1
      /\ pattern = "iterativeLoop" => started[i] = 0

\* two progressRequest invocations have each started their activity once, the
\* second still awaiting it, with both handlers registered at that point
C10_Witness ==
  /\ pattern = "progressRequest"
  /\ \E i, j \in Inv :
       /\ i # j
       /\ pc[i] = "returned" /\ pc[j] = "awaitStart"
       /\ started[i] = 1 /\ started[j] = 1
       /\ regAtStart[j] = {"update", "complete"}

\* C11: with onStarted supplied, a progressRequest invocation has invoked
\* onStarted exactly once, with the start activity's result, from the moment the
\* activity has resolved on (so before it returns), and not at all before that
\* or when the activity failed, whatever signals were delivered meanwhile.
C11_OnStartedOnce ==
  \A i \in Inv :
    (pattern = "progressRequest" /\ "onStarted" \in callbacks) =>
      /\ pc[i] \in {"awaitCond", "returned"} =>
           /\ settled[i] \in Results
           /\ Args(i, "onStarted") = <<settled[i]>>
      /\ pc[i] \in {"idle", "awaitStart", "failed"} => Args(i, "onStarted") = <<>>

\* the completion and a progress signal arrived before the activity resolved;
\* the invocation has returned and onStarted ran once
C11_Witness ==
  /\ pattern = "progressRequest"
  /\ callbacks = {"onStarted", "onProgress"}
  /\ \E i \in Inv :
       /\ pc[i] = "returned"
       /\ Len(delivered[i]) = 2
       /\ delivered[i][1].sig = "update" /\ delivered[i][1].pc = "awaitStart"
       /\ delivered[i][2].sig = "complete" /\ delivered[i][2].pc = "awaitStart"
       /\ Len(calls[i]) = 2
       /\ calls[i][2] = [cb |-> "onStarted", arg |-> result[i]]

\* no done / complete signal has been delivered to invocation i
NoCompletion(i) == Sigs(i, "done") = <<>> /\ Sigs(i, "complete") = <<>>

\* C12 (as claimed): a waitForDone or progressRequest invocation to which no
\* completion signal has been delivered has neither returned nor raised.
C12_AsClaimed ==
  \A i \in Inv :
    (pattern \in {"waitForDone", "progressRequest"} /\ NoCompletion(i)) =>
      pc[i] \notin {"returned", "failed"}

\* C12 (amended): a waitForDone or progressRequest invocation to which no
\* completion signal has been delivered has not returned; it has raised only if
\* its start activity failed, and once the activity has resolved it is suspended
\* at the condition.
C12_NeverArrives ==
  \A i \in Inv :
    (pattern \in {"waitForDone", "progressRequest"} /\ NoCompletion(i)) =>
      /\ pc[i] # "returned"
      /\ pc[i] = "failed" => settled[i] \in Errors
      /\ settled[i] \in Results => pc[i] = "awaitCond" /\ outcome[i] = Undefined

\* the activity has resolved and two progress signals have been delivered, but
\* no completion: the invocation is still suspended
C12_Witness ==
  /\ pattern = "progressRequest"
  /\ \E i \in Inv :
       /\ pc[i] = "awaitCond"
       /\ settled[i] \in Results
       /\ Len(Sigs(i, "update")) = 2
       /\ Sigs(i, "update")[2].pc = "awaitCond"
       /\ NoCompletion(i)

\* C13: the isDone flag of an invocation is false until a done / complete /
\* finish signal has been delivered to it, and no step of a handler or of the
\* body takes it from true back to false (so it rises at most once).
C13_FlagMonotonic ==
  /\ [](\A i \in Inv :
          (NoCompletion(i) /\ Sigs(i, "finish") = <<>>) => ~isDone[i])
  /\ [][\A i \in Inv : isDone[i] => isDone'[i]]_vars

\* a loop invocation got two finish signals, the second after a submission, and
\* its flag is still true
C13_Witness ==
  /\ pattern = "iterativeLoop"
  /\ \E i \in Inv :
       /\ Len(delivered[i]) = 3
       /\ delivered[i][1].sig = "finish"
       /\ delivered[i][2].sig = "submission"
       /\ delivered[i][3].sig = "finish"
       /\ isDone[i]

\* C14: a syncWait invocation calls the activity exactly once, with the caller's
\* arguments; when the activity resolves with r it has returned exactly r, when
\* it rejects with e it has raised exactly e; and no step of a syncWait
\* invocation registers or changes a signal handler.
C14_SyncWait ==
  /\ [](\A i \in Inv :
          (pattern = "syncWait" /\ pc[i] # "idle") =>
            /\ started[i] = 1
            /\ actArgs[i] = <<callArgs[i]>>
            /\ Registered(handler, i) = {}
            /\ pc[i] = "awaitStart" => settled[i] = Undefined /\ outcome[i] = Undefined
            /\ settled[i] \in Results => pc[i] = "returned" /\ outcome[i] = settled[i]
            /\ settled[i] \in Errors => pc[i] = "failed" /\ outcome[i] = settled[i])
  /\ [][pattern = "syncWait" => handler' = handler]_vars

\* one call with a1 returned its activity's result, another with a2 raised its
\* activity's error
C14_Witness ==
  /\ pattern = "syncWait"
  /\ \E i, j \in Inv :
       /\ callArgs[i] = "a1" /\ pc[i] = "returned" /\ outcome[i] = "job-2"
       /\ callArgs[j] = "a2" /\ pc[j] = "failed" /\ outcome[j] = "err-1"
       /\ actArgs[i] = <<"a1">> /\ actArgs[j] = <<"a2">>

\* ---- waitForDone and progressRequest under a fair workflow thread ----

\* whether an invocation returns does not depend on which error, progress or
\* done payload the environment sends, so one value of each is enough here
InitAwait == Init /\ pattern \in {"waitForDone", "progressRequest"}

NextAwait ==
  \/ \E i \in Inv, a \in CallArgsOf("waitForDone") : WaitForDoneCall(i, a)
  \/ \E i \in Inv, r \in Results : WaitForDoneResolved(i, r)
  \/ \E i \in Inv : WaitForDoneRejected(i, "err-1")
  \/ \E i \in Inv : WaitForDoneReturn(i)
  \/ \E i \in Inv, a \in CallArgsOf("progressRequest") : ProgressRequestCall(i, a)
  \/ \E i \in Inv, r \in Results : ProgressRequestResolved(i, r)
  \/ \E i \in Inv : ProgressRequestRejected(i, "err-1")
  \/ \E i \in Inv : ProgressRequestReturn(i)
  \/ DeliverDone("f1")
  \/ DeliverUpdate("p1")
  \/ \E f \in Finals : DeliverComplete(f)

\* the host runs a body whose condition() is satisfied: the continuation of a
\* satisfied await is not postponed forever
FairAwait ==
  \A i \in Inv : WF_vars(WaitForDoneReturn(i)) /\ WF_vars(ProgressRequestReturn(i))

SpecAwaitFair == InitAwait /\ [][NextAwait]_vars /\ FairAwait

\* C15: under a fair workflow thread, a waitForDone or progressRequest
\* invocation whose start activity has resolved and to which a completion
\* signal has been delivered eventually returns.
C15_EventuallyReturns ==
  \A i \in Inv :
    (settled[i] \in Results /\ ~NoCompletion(i)) ~> (pc[i] = "returned")

\* a waitForDone invocation has returned whose only done signal arrived before
\* its activity resolved
C15_Witness ==
  /\ pattern = "waitForDone"
  /\ \E i \in Inv :
       /\ pc[i] = "returned"
       /\ settled[i] \in Results
       /\ Len(delivered[i]) = 1
       /\ delivered[i][1].pc = "awaitStart"


\* C17: the body of an iterativeLoop invocation gets past its suspension only
\* in a state where a payload is pending or the finish flag is true; if the
\* flag is true it returns at once and leaves the slot as it is; if the flag is
\* false it clears the slot and suspends again.
C17_WakeRule ==
  [][\A i \in Inv :
       (pattern = "iterativeLoop" /\ observed'[i] # observed[i]) =>
         /\ pc[i] = "awaitCond"
         /\ lastSubmission[i] # Undefined \/ isDone[i]
         /\ isDone[i] =>
              /\ pc'[i] = "returned"
              /\ lastSubmission'[i] = lastSubmission[i]
         /\ ~isDone[i] =>
              /\ lastSubmission'[i] = Undefined
              /\ pc'[i] = "awaitCond"]_vars

\* a loop has woken for a payload, cleared it and suspended again, then woken
\* for the finish flag and returned with a later payload still in the slot
C17_Witness ==
  /\ pattern = "iterativeLoop"
  /\ \E i \in Inv :
       /\ pc[i] = "returned"
       /\ Len(observed[i]) >= 2
       /\ observed[i][1] # Undefined
       /\ lastSubmission[i] # Undefined

\* C18 as claimed: every variable of the per-invocation state (completion
\* flag, pending-submission slot, final-payload slot) is written only by signal
\* handlers, so it changes only in a step that delivers a signal to the
\* invocation; the body never writes it.
C18_AsClaimed ==
  [][\A i \in Inv :
       (\/ isDone'[i] # isDone[i]
        \/ finalData'[i] # finalData[i]
        \/ lastSubmission'[i] # lastSubmission[i]) =>
         delivered'[i] # delivered[i]]_vars

\* C18: the completion flag and the final-payload slot change only in a step
\* that delivers a signal to the invocation; the pending-submission slot changes
\* only in such a step or when the loop body, woken with the flag false, clears
\* it; and the guarded handlers read the flag: an update or complete signal
\* delivered while the flag is true changes none of the invocation's state and
\* calls no callback.
C18_Writers ==
  [][\A i \in Inv :
       /\ (isDone'[i] # isDone[i] \/ finalData'[i] # finalData[i]) =>
            delivered'[i] # delivered[i]
       /\ lastSubmission'[i] # lastSubmission[i] =>
            \/ delivered'[i] # delivered[i]
            \/ /\ observed'[i] # observed[i]
               /\ ~isDone[i]
               /\ lastSubmission'[i] = Undefined
       /\ (/\ delivered'[i] # delivered[i]
           /\ isDone[i]
           /\ delivered'[i][Len(delivered'[i])].sig \in {"update", "complete"}) =>
            /\ isDone'[i] = isDone[i]
            /\ finalData'[i] = finalData[i]
            /\ calls'[i] = calls[i]]_vars

\* the submission handler has written the slot and the loop body, woken with
\* the flag false, has cleared it
C18_Witness ==
  /\ pattern = "iterativeLoop"
  /\ \E i \in Inv :
       /\ pc[i] = "awaitCond"
       /\ Len(delivered[i]) = 1
       /\ delivered[i][1].sig = "submission"
       /\ observed[i] = <<delivered[i][1].val>>
       /\ lastSubmission[i] = Undefined
       /\ ~isDone[i]

\* C19: every invocation starts with its own flag false and its own slots
\* empty: as long as no signal has been delivered to the handlers that the
\* invocation itself registered, its flag is false and its slots are empty,
\* whatever was delivered to earlier invocations; and an invocation that has
\* returned was delivered a completion (done, complete or finish) signal of
\* its own, after its registration and before its return.
C19_FreshState ==
  \A i \in Inv :
    (pattern \in {"waitForDone", "iterativeLoop", "progressRequest"}) =>
      /\ delivered[i] = <<>> =>
           /\ ~isDone[i]
           /\ finalData[i] = Undefined
           /\ lastSubmission[i] = Undefined
           /\ pc[i] # "returned"
      /\ pc[i] = "returned" =>
           \E k \in 1..Len(delivered[i]) :
             /\ delivered[i][k].sig \in {"done", "finish", "complete"}
             /\ delivered[i][k].pc \in {"awaitStart", "awaitCond"}

\* an earlier invocation was completed, returned and was then delivered a
\* second completion signal; a later invocation, called after that, waits with
\* its flag false
C19_Witness ==
  /\ pattern = "progressRequest"
  /\ \E i, j \in Inv :
       /\ i < j
       /\ pc[i] = "returned"
       /\ Len(Sigs(i, "complete")) = 2
       /\ delivered[i][Len(delivered[i])].pc = "returned"
       /\ pc[j] = "awaitCond"
       /\ delivered[j] = <<>>
       /\ ~isDone[j]
       /\ finalData[j] = Undefined

\* the arguments of all calls of startSearchActivity, in the order of the
\* progressReq invocations 2, 3, ...
RECURSIVE SearchCalls(_)
SearchCalls(n) == IF n <= 1 THEN <<>> ELSE SearchCalls(n - 1) \o actArgs[n]

\* C20: in relifeResearchWorkflow the calls of startSearchActivity are, in
\* order, exactly one per condition signal delivered, each with the request of
\* that signal's payload: after n condition signals n cycles have been started,
\* each by its own progressReq invocation with fresh state.
C20_OneCyclePerSubmission ==
  pattern = "workflow" =>
    LET subs == Vals(Sigs(1, "submission")) IN
      /\ SearchCalls(MaxEvents) = [k \in 1..Len(subs) |-> [request |-> Request[subs[k]]]]
      /\ \A j \in Inv :
           /\ j > 1 /\ j <= Len(subs) + 1 => started[j] = 1 /\ pc[j] # "idle"
           /\ j > Len(subs) + 1 => started[j] = 0 /\ pc[j] = "idle"
      /\ started[1] = 0

\* three condition signals with two different requests have been delivered
\* and three cycles are in flight
C20_Witness ==
  /\ pattern = "workflow"
  /\ wf = "running"
  /\ Len(Sigs(1, "submission")) = 3
  /\ \E k \in 1..2 : delivered[1][k].val # delivered[1][k + 1].val
  /\ \A j \in 2..4 : started[j] = 1 /\ pc[j] \in {"awaitStart", "awaitCond"}

\* ======================= the loop under fair scheduling =======================
\* The iterativeLoop helper called on its own and as composed in
\* relifeResearchWorkflow.  The host resumes a loop body whose condition
\* holds, hence weak fairness of its wake-up step; signal deliveries and the
\* settling of activities are the environment's and get no fairness.
InitLoop == (Init /\ pattern = "iterativeLoop") \/ InitWorkflow

\* the loop never looks at the payloads of the searches it does not await,
\* so one value of each is enough here
NextLoop ==
  \/ \E i \in Inv : IterativeLoopCall(i)
  \/ \E sub \in Subs : DeliverSubmission(sub)
  \/ \E v \in Finals : DeliverFinish(v)
  \/ \E i \in Inv : IterativeLoopWake(i)
  \/ WorkflowGreeted
  \/ WorkflowPostFailed
  \/ WorkflowCompleted
  \/ \E sub \in Subs : WorkflowDeliverCondition(sub)
  \/ \E i \in Inv : ProgressRequestResolved(i, "job-1")
  \/ \E i \in Inv : ProgressRequestRejected(i, "err-1")
  \/ \E i \in Inv : ProgressRequestReturn(i)
  \/ DeliverUpdate("p1")
  \/ DeliverComplete("f1")

FairLoop == \A i \in Inv : WF_vars(IterativeLoopWake(i))

SpecLoopFair == InitLoop /\ [][NextLoop]_vars /\ FairLoop

\* C16: once a finish signal has been delivered to a loop invocation, the
\* invocation eventually returns, whether or not a submission is pending in
\* its slot and whether or not a search started by an earlier onSubmission
\* call is still in flight.
C16_LoopReturns ==
  \A i \in Inv : (Sigs(i, "finish") # <<>>) ~> (pc[i] = "returned")

\* in the workflow the loop has returned after a finish signal, with a
\* submission left in the slot and the search it started still in flight
C16_Witness ==
  /\ pattern = "workflow"
  /\ pc[1] = "returned"
  /\ Sigs(1, "finish") # <<>>
  /\ lastSubmission[1] # Undefined
  /\ \E j \in Inv : j > 1 /\ pc[j] \in {"awaitStart", "awaitCond"} /\ ~isDone[j]

\* C23: in every reachable state of a progressRequest invocation the
\* completion flag is true exactly when the final-payload slot has been
\* written, that is exactly when a complete signal has been delivered to the
\* invocation; the slot then holds the payload of the first such signal; and an
\* invocation that has returned has returned that payload, never an unset slot.
C23_FlagIffFinalData ==
  \A i \in Inv :
    pattern = "progressRequest" =>
      /\ isDone[i] <=> finalData[i] # Undefined
      /\ isDone[i] <=> Sigs(i, "complete") # <<>>
      /\ isDone[i] => finalData[i] = Sigs(i, "complete")[1].val
      /\ pc[i] = "returned" =>
           /\ isDone[i]
           /\ outcome[i] = finalData[i]
           /\ outcome[i] \in Finals

\* before its activity has resolved an invocation was delivered two complete
\* signals with different payloads: the flag is set and the slot holds the first
C23_Witness ==
  /\ pattern = "progressRequest"
  /\ \E i \in Inv :
       /\ pc[i] = "awaitStart"
       /\ isDone[i]
       /\ Len(Sigs(i, "complete")) = 2
       /\ Sigs(i, "complete")[1].val # Sigs(i, "complete")[2].val
       /\ finalData[i] = Sigs(i, "complete")[1].val

\* the progressRequest invocations of relifeResearchWorkflow
ProgressInv(i) == pattern = "workflow" /\ i > 1 /\ pc[i] # "idle"

\* the progressRequest invocation that registered its handlers last (0 if there
\* is none): the workflow's invocations are numbered in the order of their calls
Latest ==
  LET n == Cardinality({i \in Inv : pc[i] # "idle"}) IN
    IF pattern = "workflow" /\ n > 1 THEN n ELSE 0

\* C22: when progressRequest invocations overlap in relifeResearchWorkflow,
\* the handlers of the one called last have replaced those of the earlier ones:
\* the update and complete handlers registered are those of the latest
\* invocation, a step sets the completion flag of at most one invocation, and
\* that is the latest one, onProgress is called only for the latest one, and the
\* flag of an invocation that is no longer the latest never changes again.
C22_HandlerReplacement ==
  /\ [](Latest # 0 /\ wf = "running" =>
          handler["update"] = Latest /\ handler["complete"] = Latest)
  /\ [][LET last == Latest IN
          \A i \in Inv :
            ProgressInv(i) =>
              /\ isDone'[i] # isDone[i] =>
                   /\ i = last
                   /\ \A j \in Inv \ {i} : isDone'[j] = isDone[j]
              /\ (calls'[i] # calls[i] /\ calls'[i][Len(calls'[i])].cb = "onProgress") =>
                   i = last
              /\ i # last => isDone'[i] = isDone[i] /\ finalData'[i] = finalData[i]]_vars

\* a second search was started while the first was still waiting: the complete
\* signal delivered afterwards set the flag of the second, which has returned,
\* and the first still waits with its flag false
C22_Witness ==
  /\ pattern = "workflow"
  /\ wf = "running"
  /\ pc[2] = "awaitCond" /\ ~isDone[2] /\ delivered[2] = <<>>
  /\ pc[3] = "returned" /\ isDone[3]
  /\ Len(Sigs(3, "complete")) = 1

\* C21 as claimed: when a condition signal is delivered in
\* relifeResearchWorkflow while the search started for an earlier one is still
\* in flight, the earlier onSubmission execution is not cancelled, the loop's
\* slot holds the new payload, and the earlier execution can still go on to
\* completion: its progressReq invocation has its completion flag set or still
\* has its complete handler registered, so that a complete signal can reach it.
C21_NoCancellation ==
  [][\A j \in Inv :
       (/\ Len(delivered'[1]) = Len(delivered[1]) + 1
        /\ delivered'[1][Len(delivered'[1])].sig = "submission"
        /\ ProgressInv(j)
        /\ pc[j] \in {"awaitStart", "awaitCond"}) =>
         /\ pc'[j] = pc[j]
         /\ lastSubmission'[1] = delivered'[1][Len(delivered'[1])].val
         /\ isDone'[j] \/ handler'["complete"] = j]_vars
====
